---- MODULE Spec2Model ----
(***************************************************************************)
(* Model of src/docling/simple.py: a script that builds a                  *)
(* DocumentConverter, converts one hard-coded source, exports the          *)
(* document to Markdown and writes the text to output.md.                  *)
(*                                                                         *)
(* Every statement of the script is a step that begins, and then either    *)
(* returns or raises.  The file system is a map from path to file; text is *)
(* a sequence of code points and a file's data a sequence of bytes, so     *)
(* that the text-mode write (newline translation, UTF-8 encoding) is       *)
(* modelled by what it does.  A finished process can be run again on the   *)
(* file system it left behind.                                             *)
(***************************************************************************)
EXTENDS Integers, Sequences, FiniteSets

VARIABLES
    status,      \* per statement: "pending", "running", "returned", "raised"
    calls,       \* per statement: how many times this run began it
    converter,   \* simple.py:4   the name `converter`
    result,      \* simple.py:7   the name `result`
    doc,         \* simple.py:10  the name `doc`
    md_result,   \* simple.py:12  the name `md_result`
    f,           \* simple.py:14  the file object: "unbound", "open", "closed"
    buf,         \* bytes accepted by f.write and not yet on disk
    fs,          \* the working directory: path -> file
    linesep,     \* os.linesep of the platform the script runs on
    pre,         \* fs as it was when the current run started
    run,         \* number of the current run
    prevOk,      \* the previous run ended in success
    prevMd,      \* md_result of the previous run, when it succeeded
    prevOut      \* output.md as the previous run left it, when it succeeded

vars == <<status, calls, converter, result, doc, md_result, f, buf, fs,
          linesep, pre, run, prevOk, prevMd, prevOut>>

----------------------------------------------------------------------------
(* Bounds *)

MaxLen  == 2    \* longest Markdown text returned by export_to_markdown
MaxRuns == 2    \* successive runs of the script
MaxCalls == 2   \* cap on how often one statement may begin in one run

----------------------------------------------------------------------------
(* Text and bytes *)

LF        == 10       \* "\n"
CR        == 13       \* "\r"
EAcute    == 233      \* U+00E9, two bytes in UTF-8
Surrogate == 55296    \* U+D800, a lone surrogate: not encodable in UTF-8

Chars == {97, LF, EAcute, Surrogate}

Texts == UNION {[1..k -> Chars] : k \in 0..MaxLen}

Unbound == <<-1>>     \* a name the script has not assigned yet

\* codecs utf-8, strict error handler: one code point to its bytes
Utf8(c) ==
    IF c < 128 THEN <<c>>
    ELSE IF c < 2048 THEN <<192 + (c \div 64), 128 + (c % 64)>>
    ELSE <<224 + (c \div 4096), 128 + ((c \div 64) % 64), 128 + (c % 64)>>

EncodableChar(c) == c >= 0 /\ c < 65536 /\ ~(c >= 55296 /\ c <= 57343)

Encodable(t) == \A i \in 1..Len(t) : EncodableChar(t[i])

\* text mode with newline=None: "\n" is written as os.linesep
RECURSIVE TranslateNewlines(_, _)
TranslateNewlines(t, sep) ==
    IF t = <<>> THEN <<>>
    ELSE (IF Head(t) = LF THEN sep ELSE <<Head(t)>>)
         \o TranslateNewlines(Tail(t), sep)

RECURSIVE Utf8Encode(_)
Utf8Encode(t) ==
    IF t = <<>> THEN <<>> ELSE Utf8(Head(t)) \o Utf8Encode(Tail(t))

\* the bytes f.write(t) hands to the file, for encodable t
EncodeText(t, sep) == Utf8Encode(TranslateNewlines(t, sep))

Prefix(s, k) == SubSeq(s, 1, k)
Suffix(s, k) == SubSeq(s, k + 1, Len(s))

IsPrefix(p, s) == Len(p) <= Len(s) /\ Prefix(s, Len(p)) = p

----------------------------------------------------------------------------
(* The file system *)

OUTPUT == "output.md"
NOTES  == "notes.md"
Files  == {OUTPUT, NOTES}

Absent        == [exists |-> FALSE, data |-> <<>>]
FileOf(bytes) == [exists |-> TRUE, data |-> bytes]

\* open(path, "w"): create the file or truncate it to length zero
OpenWAppend(fsys, path) ==
    [fsys EXCEPT ![path] = IF @.exists THEN @ ELSE FileOf(<<>>)]

OpenWBackup(fsys, path) ==
    [p \in DOMAIN fsys |->
        IF p = path THEN FileOf(<<>>)
        ELSE IF fsys[path].exists THEN fsys[path] ELSE fsys[p]]

OpenW(fsys, path) == [fsys EXCEPT ![path] = FileOf(<<>>)]

\* bytes reaching the disk through the open file are added at its end
FlushLost(fsys, path, bytes) ==
    [fsys EXCEPT ![path] = FileOf(@.data)]

Flush(fsys, path, bytes) ==
    [fsys EXCEPT ![path] = FileOf(@.data \o bytes)]

----------------------------------------------------------------------------
(* The statements of the script, in program order *)

StepOrder == <<"import", "construct", "convert", "document",
               "export", "open", "write", "close">>
Steps == {StepOrder[i] : i \in 1..Len(StepOrder)}

Idx(s) == CHOOSE i \in 1..Len(StepOrder) : StepOrder[i] = s
Before(s) == {t \in Steps : Idx(t) < Idx(s)}
After(s)  == {t \in Steps : Idx(t) > Idx(s)}

\* a statement begins once every statement before it has returned
CanBeginSwallow(s) ==
    /\ status[s] = "pending"
    /\ \A t \in Before(s) : status[t] \in {"returned", "raised"}

CanBeginOverlap(s) ==
    /\ status[s] = "pending"
    /\ \A t \in Before(s) : status[t] # "pending"

CanBeginRetry(s) ==
    /\ status[s] \in {"pending", "raised"}
    /\ \A t \in Before(s) : status[t] = "returned"

CanBegin(s) ==
    /\ status[s] = "pending"
    /\ \A t \in Before(s) : status[t] = "returned"

Done   == status["close"] = "returned"
Failed == \E s \in Steps : status[s] = "raised"

Returns(s) == status' = [status EXCEPT ![s] = "returned"]
Raises(s)  == status' = [status EXCEPT ![s] = "raised"]

ghost == <<linesep, pre, run, prevOk, prevMd, prevOut>>

----------------------------------------------------------------------------
(* Initial state: a fresh process in a working directory *)

\* what output.md may hold before the first run: nothing, or any earlier
\* text, some of them longer than any text this run can write
OldTexts == UNION {[1..k -> {97, EAcute}] : k \in 0..(MaxLen + 1)}

InitOutput == {Absent} \cup {FileOf(Utf8Encode(t)) : t \in OldTexts}
InitOther  == {Absent, FileOf(<<97>>)}

Init ==
    /\ status = [s \in Steps |-> "pending"]
    /\ calls = [s \in Steps |-> 0]
    /\ converter = "unbound"
    /\ result = "unbound"
    /\ doc = "unbound"
    /\ md_result = Unbound
    /\ f = "unbound"
    /\ buf = <<>>
    /\ \E out \in InitOutput, other \in InitOther :
          fs = [p \in Files |-> IF p = OUTPUT THEN out ELSE other]
    /\ linesep \in {<<LF>>, <<CR, LF>>}
    /\ pre = fs
    /\ run = 1
    /\ prevOk = FALSE
    /\ prevMd = Unbound
    /\ prevOut = Absent

----------------------------------------------------------------------------
(* Actions *)

\* the interpreter reaches the next statement and starts executing it
Begin ==
    \E s \in Steps :
        /\ CanBegin(s)
        /\ calls[s] < MaxCalls
        /\ status' = [status EXCEPT ![s] = "running"]
        /\ calls' = [calls EXCEPT ![s] = @ + 1]
        /\ UNCHANGED <<converter, result, doc, md_result, f, buf, fs, ghost>>

\* simple.py:1
ImportReturn ==
    /\ status["import"] = "running"
    /\ Returns("import")
    /\ UNCHANGED <<calls, converter, result, doc, md_result, f, buf, fs, ghost>>

ImportRaise ==
    /\ status["import"] = "running"
    /\ Raises("import")
    /\ UNCHANGED <<calls, converter, result, doc, md_result, f, buf, fs, ghost>>

\* simple.py:4
ConstructReturn ==
    /\ status["construct"] = "running"
    /\ Returns("construct")
    /\ converter' = "DocumentConverter"
    /\ UNCHANGED <<calls, result, doc, md_result, f, buf, fs, ghost>>

ConstructRaise ==
    /\ status["construct"] = "running"
    /\ Raises("construct")
    /\ UNCHANGED <<calls, converter, result, doc, md_result, f, buf, fs, ghost>>

\* simple.py:7
ConvertReturn ==
    /\ status["convert"] = "running"
    /\ Returns("convert")
    /\ result' = "ConversionResult"
    /\ UNCHANGED <<calls, converter, doc, md_result, f, buf, fs, ghost>>

ConvertRaise ==
    /\ status["convert"] = "running"
    /\ Raises("convert")
    /\ UNCHANGED <<calls, converter, result, doc, md_result, f, buf, fs, ghost>>

\* simple.py:10
DocumentReturn ==
    /\ status["document"] = "running"
    /\ Returns("document")
    /\ doc' = "Document"
    /\ UNCHANGED <<calls, converter, result, md_result, f, buf, fs, ghost>>

\* simple.py:12
ExportReturn ==
    /\ status["export"] = "running"
    /\ Returns("export")
    /\ \E t \in Texts : md_result' = t
    /\ UNCHANGED <<calls, converter, result, doc, f, buf, fs, ghost>>

ExportRaise ==
    /\ status["export"] = "running"
    /\ Raises("export")
    /\ UNCHANGED <<calls, converter, result, doc, md_result, f, buf, fs, ghost>>

\* simple.py:14
OpenReturn ==
    /\ status["open"] = "running"
    /\ Returns("open")
    /\ fs' = OpenW(fs, OUTPUT)
    /\ f' = "open"
    /\ buf' = <<>>
    /\ UNCHANGED <<calls, converter, result, doc, md_result, ghost>>

OpenRaise ==
    /\ status["open"] = "running"
    /\ Raises("open")
    /\ UNCHANGED <<calls, converter, result, doc, md_result, f, buf, fs, ghost>>

\* simple.py:15, the text is encoded whole, then buffered; any leading part
\* of it may already be flushed to the disk when write returns
WriteReturn ==
    /\ status["write"] = "running"
    /\ f = "open"
    /\ Encodable(md_result)
    /\ Returns("write")
    /\ LET enc == EncodeText(md_result, linesep) IN
        \E k \in 0..Len(enc) :
            /\ fs' = Flush(fs, OUTPUT, Prefix(enc, k))
            /\ buf' = Suffix(enc, k)
    /\ UNCHANGED <<calls, converter, result, doc, md_result, f, ghost>>

\* simple.py:15 raises: the text cannot be encoded (nothing is written), or
\* the device fails part-way; the with statement then closes the file
WriteRaise ==
    /\ status["write"] = "running"
    /\ Raises("write")
    /\ \/ /\ f # "open" \/ ~Encodable(md_result)
          /\ fs' = fs
       \/ /\ f = "open" /\ Encodable(md_result)
          /\ LET enc == EncodeText(md_result, linesep) IN
               \E k \in 0..(Len(enc) - 1) :
                   fs' = Flush(fs, OUTPUT, Prefix(enc, k))
    /\ f' = IF f = "open" THEN "closed" ELSE f
    /\ buf' = <<>>
    /\ UNCHANGED <<calls, converter, result, doc, md_result, ghost>>

\* simple.py:14, leaving the with block: flush what is buffered, close
CloseReturn ==
    /\ status["close"] = "running"
    /\ Returns("close")
    /\ fs' = IF f = "open" THEN Flush(fs, OUTPUT, buf) ELSE fs
    /\ f' = IF f = "open" THEN "closed" ELSE f
    /\ buf' = <<>>
    /\ UNCHANGED <<calls, converter, result, doc, md_result, ghost>>

\* the flush on close fails part-way: some buffered bytes never reach the disk
CloseRaise ==
    /\ status["close"] = "running"
    /\ buf # <<>>
    /\ Raises("close")
    /\ \E k \in 0..(Len(buf) - 1) : fs' = Flush(fs, OUTPUT, Prefix(buf, k))
    /\ f' = "closed"
    /\ buf' = <<>>
    /\ UNCHANGED <<calls, converter, result, doc, md_result, ghost>>

\* the process has ended; the script is started again in the same directory
Rerun ==
    /\ Done \/ Failed
    /\ \A s \in Steps : status[s] # "running"
    /\ run < MaxRuns
    /\ run' = run + 1
    /\ status' = [s \in Steps |-> "pending"]
    /\ calls' = [s \in Steps |-> 0]
    /\ converter' = "unbound"
    /\ result' = "unbound"
    /\ doc' = "unbound"
    /\ md_result' = Unbound
    /\ f' = "unbound"
    /\ buf' = <<>>
    /\ pre' = fs
    /\ prevOk' = (Done /\ ~Failed)
    /\ prevMd' = IF Done /\ ~Failed THEN md_result ELSE Unbound
    /\ prevOut' = IF Done /\ ~Failed THEN fs[OUTPUT] ELSE Absent
    /\ UNCHANGED <<fs, linesep>>

Step ==
    \/ Begin
    \/ ImportReturn \/ ImportRaise
    \/ ConstructReturn \/ ConstructRaise
    \/ ConvertReturn \/ ConvertRaise
    \/ DocumentReturn
    \/ ExportReturn \/ ExportRaise
    \/ OpenReturn \/ OpenRaise
    \/ WriteReturn \/ WriteRaise
    \/ CloseReturn \/ CloseRaise

Next ==
    \/ Begin
    \/ ImportReturn \/ ImportRaise
    \/ ConstructReturn \/ ConstructRaise
    \/ ConvertReturn \/ ConvertRaise
    \/ DocumentReturn
    \/ ExportReturn \/ ExportRaise
    \/ OpenReturn \/ OpenRaise
    \/ WriteReturn \/ WriteRaise
    \/ CloseReturn \/ CloseRaise
    \/ Rerun

Spec == Init /\ [][Next]_vars

\* the interpreter keeps going and every call in progress returns or raises
LiveSpec == Init /\ [][Next]_vars /\ WF_vars(Step)

----------------------------------------------------------------------------
(* Properties *)

AllPending == \A s \in Steps : status[s] = "pending"

TotalCalls ==
    calls["import"] + calls["construct"] + calls["convert"] + calls["document"]
    + calls["export"] + calls["open"] + calls["write"] + calls["close"]

WriteFailed == status["write"] = "raised" \/ status["close"] = "raised"

\* C1: when converter.convert raises, output.md is what it was before the
\* run (absent, or present with the same content), and the run has failed
\* and has not succeeded.
C1_ConvertFailureLeavesOutput ==
    status["convert"] = "raised" =>
        /\ fs[OUTPUT] = pre[OUTPUT]
        /\ Failed
        /\ ~Done

C1_Witness ==
    /\ status["convert"] = "raised"
    /\ pre[OUTPUT].exists
    /\ pre[OUTPUT].data # <<>>

\* C2 as stated: after a successful run output.md exists and is non-empty.
C2_NonEmptyOutput ==
    Done => (fs[OUTPUT].exists /\ fs[OUTPUT].data # <<>>)

\* C2 amended: after a successful run output.md exists, and it is non-empty
\* exactly when the Markdown text returned by export_to_markdown is non-empty.
C2_OutputNonEmptyIffMarkdownNonEmpty ==
    Done =>
        /\ fs[OUTPUT].exists
        /\ (fs[OUTPUT].data # <<>>) <=> (md_result # <<>>)

C2_Witness ==
    /\ Done
    /\ md_result # <<>>
    /\ fs[OUTPUT].data # <<>>
    /\ ~pre[OUTPUT].exists

\* C3: when two successive runs both succeed with the same Markdown text,
\* output.md after the second run equals output.md after the first.
C3_RerunIdempotent ==
    (Done /\ prevOk /\ prevMd = md_result) => fs[OUTPUT] = prevOut

C3_Witness ==
    /\ Done
    /\ prevOk
    /\ prevMd = md_result
    /\ md_result # <<>>

\* C4: after a successful run output.md holds exactly the Markdown text of
\* that run, as the text-mode UTF-8 file holds it, whatever output.md was
\* before the run; no byte of the earlier content remains.
C4_Overwrite ==
    Done => fs[OUTPUT] = FileOf(EncodeText(md_result, linesep))

C4_Witness ==
    /\ Done
    /\ md_result # <<>>
    /\ pre[OUTPUT].exists
    /\ Len(pre[OUTPUT].data) > Len(fs[OUTPUT].data)

\* C5: no statement begins more than once in a run; once a statement has
\* raised, no later statement has begun; a failed run is not a successful one.
C5_NoRetryNoLaterStep ==
    /\ \A s \in Steps : calls[s] <= 1
    /\ \A s \in Steps :
          status[s] = "raised" =>
              /\ calls[s] = 1
              /\ \A t \in After(s) : status[t] = "pending" /\ calls[t] = 0
    /\ Failed => ~Done

C5_Witness ==
    /\ status["open"] = "raised"
    /\ calls["convert"] = 1
    /\ calls["export"] = 1

\* C6: every file other than output.md is as it was when the run started,
\* and a run starts with none of the script's names bound.
C6_OnlyOutputChanges ==
    /\ \A p \in Files \ {OUTPUT} : fs[p] = pre[p]
    /\ AllPending =>
          /\ converter = "unbound" /\ result = "unbound" /\ doc = "unbound"
          /\ md_result = Unbound /\ f = "unbound" /\ buf = <<>>

C6_Witness ==
    /\ Done
    /\ run > 1
    /\ fs[NOTES].exists
    /\ fs[OUTPUT] # pre[OUTPUT]

\* C7: at most one statement is in progress; export has begun only if
\* convert has returned, and the open and the write of output.md have begun
\* only if export has returned.
C7_Sequential ==
    /\ Cardinality({s \in Steps : status[s] = "running"}) <= 1
    /\ status["export"] # "pending" => status["convert"] = "returned"
    /\ status["open"] # "pending" => status["export"] = "returned"
    /\ status["write"] # "pending" =>
          status["export"] = "returned" /\ status["open"] = "returned"
    /\ f # "unbound" => status["export"] = "returned"

C7_Witness ==
    /\ status["write"] = "running"
    /\ status["convert"] = "returned"
    /\ status["export"] = "returned"

\* C8: when the write of the text fails after output.md was opened, the run
\* has failed, the file is closed, and output.md exists holding only a
\* proper leading part of the new text's bytes (nothing at all when the text
\* cannot be encoded); the earlier content is not in it.
C8_FailedWriteLeavesTruncatedFile ==
    WriteFailed =>
        /\ Failed
        /\ ~Done
        /\ f = "closed"
        /\ fs[OUTPUT].exists
        /\ IF Encodable(md_result)
           THEN /\ IsPrefix(fs[OUTPUT].data, EncodeText(md_result, linesep))
                /\ fs[OUTPUT].data # EncodeText(md_result, linesep)
           ELSE fs[OUTPUT].data = <<>>

C8_Witness ==
    /\ status["write"] = "raised"
    /\ pre[OUTPUT].exists
    /\ pre[OUTPUT].data # <<>>
    /\ fs[OUTPUT] # pre[OUTPUT]

\* C9: output.md differs from its state at the start of the run only if
\* convert and export have both returned; when export_to_markdown raises,
\* output.md is unchanged.
C9_OutputChangesOnlyAfterExport ==
    /\ fs[OUTPUT] # pre[OUTPUT] =>
          status["convert"] = "returned" /\ status["export"] = "returned"
    /\ status["export"] = "raised" => fs[OUTPUT] = pre[OUTPUT]

C9_Witness ==
    /\ status["export"] = "raised"
    /\ status["convert"] = "returned"
    /\ pre[OUTPUT].exists

\* C10: every run takes at most one begin per statement of the script, never
\* ends both in success and in failure, and, provided every call in
\* progress returns or raises, a started run reaches success or failure.
C10_Terminates ==
    /\ [](TotalCalls <= Len(StepOrder))
    /\ [](~(Done /\ Failed))
    /\ (AllPending ~> (Done \/ Failed))

C10_Witness ==
    /\ Done
    /\ TotalCalls = Len(StepOrder)
    /\ run > 1
====
